---- MODULE Spec2Model ----
(***************************************************************************)
(* A model of the equivalent-width driver of MOOGme/FASMA (src/ewDriver.py):*)
(* the per-job loop of ewdriver, the outlier runner, the outlier detection *)
(* and the line removal, together with the files they read and write.      *)
(*                                                                         *)
(* Wavelengths are integers in hundredths of an Angstrom (500010 is        *)
(* 5000.10).  Abundances are integers; means and standard deviations are   *)
(* compared exactly, by cross-multiplication, where the code uses floats.  *)
(***************************************************************************)
EXTENDS Integers, Sequences, FiniteSets, TLC

\* ------------------------------------------------------------------ bounds
\* Number of FeI lines of a line list.
NFe1 == 22
\* Number of job descriptor lines of the configuration file.
NJobs == 2
\* Largest number of lines whose abundance one engine report puts off the rest.
MaxDeviant == 2

\* --------------------------------------------------------- program constants
\* fe2.shape[0] > 10: FeII is screened only above this many lines.
Fe2Screen == 10
\* 'sigma': 3, the default multiplier n of the standard deviation.
DefaultSigma == 3
\* parameters[0] > 7000: only a warning is logged.
TeffHigh == 7000
\* parameters[0] < 5200: the cool-star lines are removed.
TeffLow == 5200
\* initial = [5777, 4.44, 0.00, 1.00], Teff of the default initial guess.
SolarTeff == 5777
\* 'EPcrit': 0.001, 'RWcrit': 0.003, 'ABdiffcrit': 0.01, in units of 1e-4.
DefaultEPcrit == 10
DefaultRWcrit == 30
DefaultABdiffcrit == 100
\* Lowest Teff of the tabulated grid of atmosphere models.
GridTeffMin == 3750

\* ------------------------------------------------------------ line universe
\* The FeI lines 5000.10, 5001.10, ... of a line list.
Fe1Lines == {500010 + 100 * k : k \in 0 .. (NFe1 - 1)}
\* The FeII lines 6000.23, 6001.23, ...; n of them.
Fe2Lines(n) == {600023 + 100 * k : k \in 0 .. (n - 1)}
\* An FeII line at 5000.12, next to the FeI line at 5000.10.
BlendFe2 == 500012
\* An FeI line at 5002.15, next to the FeI line at 5002.10.
BlendFe1 == 500215
\* The lines of rawLinelist/coolNormalDiff.lines.
CoolNormalDiff == {500210, 600023}

\* The ionization stage of a line: the species column of the line list.
StageOf(w) == IF w = BlendFe2 \/ w >= 600000 THEN 2 ELSE 1

Stage(lines, s) == {w \in lines : StageOf(w) = s}

\* The contents of the line list files the job descriptors name.
ListKinds == {"long", "short", "blend"}
ListContents(kind) ==
    CASE kind = "long" -> Fe1Lines \cup {BlendFe1} \cup Fe2Lines(Fe2Screen + 1)
      [] kind = "short" -> Fe1Lines \cup Fe2Lines(1)
      [] OTHER -> (Fe1Lines \ CoolNormalDiff) \cup {BlendFe2}

\* ------------------------------------------------------------------- text
Dot == 10

RECURSIVE Digits(_)
\* The decimal digits of a natural number, most significant first.
Digits(n) == IF n < 10 THEN <<n>> ELSE Digits(n \div 10) \o <<n % 10>>

\* str(round(wavelength, 2)): the shortest decimal text, at least one decimal.
PyStr(w) ==
    Digits(w \div 100) \o <<Dot>> \o
    (IF w % 10 = 0 THEN <<(w % 100) \div 10>>
                   ELSE <<(w % 100) \div 10, w % 10>>)

\* A line of a line list file with its blanks removed: '%9.3f' wavelength,
\* '%10.1f' species (26.0 for FeI, 26.1 for FeII), then the other columns.
FileText(w) ==
    Digits(w \div 100) \o <<Dot, (w % 100) \div 10, w % 10, 0>> \o
    <<2, 6, Dot, StageOf(w) - 1>>

StartsWith(text, prefix) ==
    /\ Len(prefix) <= Len(text)
    /\ \A i \in 1 .. Len(prefix) : text[i] = prefix[i]

\* A removal that drops the lines whose whole text is the wavelength.
removeOutlier_WholeLine(lines, wavelength) ==
    {w \in lines : FileText(w) # PyStr(wavelength)}

\* removeOutlier(fname, wavelength) on the contents of the file: every line
\* whose text starts with str(round(wavelength, 2)) is dropped.
removeOutlier(lines, wavelength) ==
    {w \in lines : ~StartsWith(FileText(w), PyStr(wavelength))}

\* ------------------------------------------------------- the engine's report
\* The abundance the engine derives for a line the report does not put off.
Base(w) == (w \div 100) % 2
\* The abundance the engine derives for a line the report puts off the rest.
DevAb == 20
\* The lines whose derived abundance can come out off the rest.
DeviantCandidates == {500010, 500210, 600223}

DeviantSets(lines) ==
    {D \in SUBSET (DeviantCandidates \cap lines) : Cardinality(D) <= MaxDeviant}

\* The per-line abundance tables summary.out can hold after an engine run on a
\* line list: a function from the lines of the list to their abundance.
Reports(lines) ==
    {[w \in lines |-> IF w \in D THEN DevAb ELSE Base(w)] : D \in DeviantSets(lines)}

EmptySummary == [w \in {} |-> 0]

\* ------------------------------------------------------------- arithmetic
Abs(x) == IF x < 0 THEN -x ELSE x

RECURSIVE GCD(_, _)
GCD(a, b) == IF b = 0 THEN a ELSE GCD(b, a % b)

RECURSIVE SumOver(_, _)
\* The sum of f[w] over the set S.
SumOver(f, S) ==
    IF S = {} THEN 0
    ELSE LET w == CHOOSE x \in S : TRUE IN f[w] + SumOver(f, S \ {w})

\* ------------------------------------------------------------- hasOutlier
\* np.mean and np.std of a stage, kept exact: the number of lines N, the sum
\* S of their abundances, and Q = sum_j (N*a_j - S)^2, so that mean = S/N and
\* std^2 = Q/N^3.
RECURSIVE SquaresOver(_, _, _, _)
SquaresOver(f, S, N, total) ==
    IF S = {} THEN 0
    ELSE LET w == CHOOSE x \in S : TRUE
         IN  (N * f[w] - total) * (N * f[w] - total) + SquaresOver(f, S \ {w}, N, total)

StageStats(summary, rows) ==
    LET N == Cardinality(rows)
        total == SumOver(summary, rows)
    IN  [N |-> N, S |-> total, Q |-> SquaresOver(summary, rows, N, total)]

\* dev >= n * std for a line of abundance a, where dev = |a - mean|: squared
\* and multiplied out, N * (N*a - S)^2 >= n^2 * Q.
IsOutlier(a, st, n) ==
    st.N * (st.N * a - st.S) * (st.N * a - st.S) >= n * n * st.Q

\* A screen that lets a stage of exactly 10 lines through.
Fe2Screened_AtTen(fe2) == Cardinality(fe2) >= Fe2Screen

\* fe2.shape[0] > 10
Fe2Screened(fe2) == Cardinality(fe2) > Fe2Screen

\* The dictionary key of a line: its deviation |a - mean|, as the fraction
\* <<numerator, denominator>> in lowest terms.
DevKey(a, st) ==
    LET num == Abs(st.N * a - st.S)
        g == GCD(num, st.N)
    IN  <<num \div g, st.N \div g>>

EmptyDict == [k \in {} |-> 0]

\* for i, fei in enumerate(fe[:, 5+idx]): if dev >= s: d[dev] = fe[i, 0]
\* on the dictionary d.  The rows of a stage are in ascending wavelength, and
\* a later row overwrites the entry of an earlier row with the same deviation:
\* an entry written here holds the largest flagged wavelength with its key.
ScanStage(d, summary, rows, n) ==
    LET st == StageStats(summary, rows)
        hit == {w \in rows : IsOutlier(summary[w], st, n)}
        keys == {DevKey(summary[w], st) : w \in hit}
        last(k) == CHOOSE w \in hit :
                      /\ DevKey(summary[w], st) = k
                      /\ \A v \in hit : DevKey(summary[v], st) = k => v <= w
    IN  [k \in DOMAIN d \cup keys |-> IF k \in keys THEN last(k) ELSE d[k]]

\* hasOutlier(MOOGv, n) on the report in summary.out: the dictionary
\* {deviation: wavelength}; the empty dictionary stands for the False the
\* code returns when nothing was flagged.
hasOutlier(summary, n) ==
    LET fe1 == Stage(DOMAIN summary, 1)
        fe2 == Stage(DOMAIN summary, 2)
        d1 == ScanStage(EmptyDict, summary, fe1, n)
    IN  IF Fe2Screened(fe2) THEN ScanStage(d1, summary, fe2, n) ELSE d1

\* max(outliers.keys()): the largest deviation of the dictionary.
MaxKey(d) ==
    CHOOSE k \in DOMAIN d : \A j \in DOMAIN d : k[1] * j[2] >= j[1] * k[2]

\* outliers.itervalues(): the wavelengths the dictionary holds.
DictValues(d) == {d[k] : k \in DOMAIN d}

RECURSIVE RemoveAll(_, _)
\* for wavelength in ...: removeOutlier(fname, wavelength)
RemoveAll(lines, wavelengths) ==
    IF wavelengths = {} THEN lines
    ELSE LET w == CHOOSE x \in wavelengths : TRUE
         IN  RemoveAll(removeOutlier(lines, w), wavelengths \ {w})

\* ---------------------------------------------------------------- options
\* The option tokens of a job descriptor: key:value pairs, and bare flags
\* (val = "", the token holds no ':').
Pair(k, v) == [key |-> k, val |-> v]
Flag(k) == [key |-> k, val |-> ""]

\* The option strings of the job descriptors, split at ','.  An option
\* 'sigma:<n>' is left out: its value stays a string that the detection then
\* multiplies with a float.
OptionStrings ==
    { <<>>,
      <<Pair("outlier", "1Iter")>>, <<Pair("outlier", "1Once")>>,
      <<Pair("outlier", "allIter")>>, <<Pair("outlier", "allOnce")>>,
      <<Pair("outlier", "2Iter")>>,
      <<Flag("teffrange")>>,
      <<Pair("outlier", "allIter"), Flag("teffrange")>>,
      <<Pair("outlier", "1Once"), Flag("teffrange")>>,
      <<Flag("autofixvt")>>, <<Flag("refine")>>,
      <<Flag("autofixvt"), Flag("refine"), Pair("outlier", "1Iter")>>,
      <<Flag("teff")>>, <<Flag("vt"), Flag("autofixvt")>>,
      <<Flag("feh"), Flag("feh")>>,
      <<Flag("teff"), Flag("logg"), Flag("feh"), Flag("vt")>>,
      <<Flag("verbose")>>,
      <<Pair("iterations", "abc")>>, <<Pair("iterations", "50")>>,
      <<Pair("EPcrit", "0.0001"), Pair("RWcrit", "0.0005"), Flag("refine")>>,
      <<Pair("model", "PHOENIX")>>, <<Pair("model", "MARCS")>> }

\* The defaults dictionary of _options.  Python's False of the 'outlier'
\* option is written "False"; the thresholds are in units of 1e-4.
Defaults ==
    [model |-> "kurucz95",
     fix_teff |-> FALSE, fix_logg |-> FALSE, fix_feh |-> FALSE, fix_vt |-> FALSE,
     refine |-> FALSE,
     iterations |-> 160,
     EPcrit |-> DefaultEPcrit, RWcrit |-> DefaultRWcrit,
     ABdiffcrit |-> DefaultABdiffcrit,
     outlier |-> "False",
     teffrange |-> FALSE,
     autofixvt |-> FALSE,
     sigma |-> DefaultSigma]

\* if option in ['teff', 'logg', 'feh', 'vt']: option = 'fix_%s' % option
FlagKey(k) ==
    CASE k = "teff" -> "fix_teff"
      [] k = "logg" -> "fix_logg"
      [] k = "feh" -> "fix_feh"
      [] k = "vt" -> "fix_vt"
      [] OTHER -> k

\* int(...) of an option value: the texts that are numbers.
IntOf == ("50" :> 50)

\* float(...) of a threshold's text, in units of 1e-4.
FloatOf == ("0.0001" :> 1) @@ ("0.0005" :> 5)

\* Whether the option string sets the key k as key:value.
Given(tokens, k) == \E i \in 1 .. Len(tokens) : tokens[i].key = k /\ tokens[i].val # ""

\* float(defaults[k]) of a threshold: the default is a float already.
ToFloat(d, tokens, k) == IF Given(tokens, k) THEN FloatOf[d[k]] ELSE d[k]

\* str.lower() on the model names the descriptors use.
Lower(name) ==
    CASE name = "PHOENIX" -> "phoenix"
      [] name = "MARCS" -> "marcs"
      [] OTHER -> name

RECURSIVE ApplyOptions(_, _)
\* for option in options.split(','): ... ; the result is [exc, opts], exc the
\* exception the loop raised ("" for none).
ApplyOptions(d, tokens) ==
    IF tokens = <<>> THEN [exc |-> "", opts |-> d]
    ELSE LET t == Head(tokens) IN
         IF t.val # ""
         THEN ApplyOptions([d EXCEPT ![t.key] = t.val], Tail(tokens))
         ELSE IF FlagKey(t.key) \notin DOMAIN d
              THEN [exc |-> "KeyError", opts |-> d]
              ELSE ApplyOptions([d EXCEPT ![FlagKey(t.key)] = ~d[FlagKey(t.key)]],
                                Tail(tokens))

\* _options(options): [exc, opts].
ParseOptions(tokens) ==
    IF tokens = <<>> THEN [exc |-> "", opts |-> Defaults]
    ELSE LET r == ApplyOptions(Defaults, tokens)
             d == r.opts
             given == \E i \in 1 .. Len(tokens) : tokens[i].key = "iterations"
         IN  IF r.exc # "" THEN r
             ELSE IF given /\ d.iterations \notin DOMAIN IntOf
             THEN [exc |-> "ValueError", opts |-> d]
             ELSE [exc |-> "",
                   opts |-> [d EXCEPT
                     !.model = Lower(d.model),
                     !.iterations = IF given THEN IntOf[d.iterations] ELSE d.iterations,
                     !.EPcrit = ToFloat(d, tokens, "EPcrit"),
                     !.RWcrit = ToFloat(d, tokens, "RWcrit"),
                     !.ABdiffcrit = ToFloat(d, tokens, "ABdiffcrit"),
                     !.outlier = IF d.outlier \in {"False", "1Iter", "1Once", "allIter", "allOnce"}
                                 THEN d.outlier ELSE "False"]]

\* ------------------------------------------------------------- parameters
\* A parameter vector (Teff, logg, [Fe/H], vt); logg and vt in units of 0.01.
Vector(t, v) == [teff |-> t, logg |-> 444, feh |-> 0, vt |-> v]

\* The vectors a solver run can end at.
ParamVectors ==
    {Vector(5000, 100), Vector(5777, 100), Vector(7500, 100),
     Vector(5777, 0), Vector(5777, 1000)}

\* initial = [5777, 4.44, 0.00, 1.00]
DefaultInitial == Vector(SolarTeff, 100)
\* An initial guess below the grid of atmosphere models.
ColdInitial == Vector(3000, 100)

\* Whether the grid holds models that bracket the vector.  The interpolator
\* ewdriver calls, interpolator(params, atmtype), is the one of the driver's
\* own package; interpolation.py's interpolator(mnames, teff, logg, feh) is
\* handed the bracketing models by its caller.
InGrid(x) == x.teff >= GridTeffMin

\* The three thresholds of an options dictionary.
Crit(opts) == <<opts.EPcrit, opts.RWcrit, opts.ABdiffcrit>>

\* The four fixed/free tags of an options dictionary.
Tags(opts) == <<opts.fix_teff, opts.fix_logg, opts.fix_feh, opts.fix_vt>>

\* A vector the solver can return from the start x0: fixed parameters keep
\* their start values.
Reachable(x0, x, opts) ==
    /\ opts.fix_teff => x.teff = x0.teff
    /\ opts.fix_logg => x.logg = x0.logg
    /\ opts.fix_feh => x.feh = x0.feh
    /\ opts.fix_vt => x.vt = x0.vt

\* Minimize(x0, fun_moog, **options).minimize() on the line list the
\* parameter file names: the outcomes [raised, parameters, converged].
\* ValueError is raised when the list holds no FeII line.  Every run leaves
\* the report of its last engine call in summary.out (Reports).
Minimize(x0, lines, opts) ==
    IF Stage(lines, 2) = {}
    THEN {[raised |-> TRUE, parameters |-> x0, converged |-> FALSE]}
    ELSE {[raised |-> FALSE, parameters |-> x, converged |-> c] :
            x \in {y \in ParamVectors \cup {x0} : Reachable(x0, y, opts)},
            c \in BOOLEAN}

\* ------------------------------------------------------------------ files
\* The name of a file under linelist/: the stem, the number of '_outlier'
\* suffixes before the extension, and whether the name holds '.moog'.
Name(stem, n, moog) == [stem |-> stem, n |-> n, moog |-> moog]

\* tmpll = 'linelist/tmplinelist.moog'
Tmp == Name("tmplinelist", 0, TRUE)

\* linelist.replace('.moog', '_outlier.moog')
NewName(linelist) ==
    IF linelist.moog THEN [linelist EXCEPT !.n = @ + 1] ELSE linelist

\* Writing a file, and os.remove.
Store(fs, name, lines) ==
    [k \in DOMAIN fs \cup {name} |-> IF k = name THEN lines ELSE fs[k]]
Delete(fs, name) == [k \in DOMAIN fs \ {name} |-> fs[k]]

\* -------------------------------------------------------- job descriptors
\* The line lists the descriptors name: the contents, and whether the file
\* name ends in '.moog'.
JobLists ==
    {[kind |-> "long", moog |-> TRUE], [kind |-> "short", moog |-> TRUE],
     [kind |-> "blend", moog |-> FALSE]}

\* The lines of the configuration file: the job descriptors, and a header
\* line, a line with a wrong number of fields and a line naming a missing
\* file.
Descriptors ==
    {[form |-> "job", list |-> l, initial |-> DefaultInitial, opts |-> o] :
        l \in JobLists, o \in OptionStrings}
    \cup
    {[form |-> "job", list |-> l, initial |-> ColdInitial, opts |-> <<>>] :
        l \in JobLists}
    \cup
    {[form |-> f, list |-> [kind |-> "long", moog |-> TRUE],
      initial |-> DefaultInitial, opts |-> <<>>] :
        f \in {"header", "fields", "nofile"}}

\* if options['model'] not in ['kurucz95', 'apogee_kurucz', 'marcs']
ModelAvailable(opts) == opts.model \in {"kurucz95", "apogee_kurucz", "marcs"}

NoRow == [written |-> FALSE]

\* No interpolation under way.
NoInterp == [pc |-> "idle"]

\* No call of fun_moog under way, and none of aresRunner.
NoMoog == [pc |-> "idle"]
NoAres == [pc |-> "idle"]

\* ------------------------------------------------------------------ state
VARIABLES
    pc,          \* the position of ewdriver
    jobIdx,      \* the number of lines of the configuration file read
    exception,   \* the exception that left ewdriver ("" for none)
    line0,       \* line[0]: the name of the job's line list
    options,     \* the options dictionary of the job
    initial,     \* the initial parameter vector of the job
    parameters,  \* the current parameter vector
    converged,   \* ewdriver's converged: set by its own solver runs only
    files,       \* the files under linelist/: name -> set of lines
    par,         \* the line list the engine's parameter file names
    summary,     \* summary.out: the report of the last engine run
    outliers,    \* _outlierRunner's dictionary of outliers
    newLineList, \* _outlierRunner's flag
    ret,         \* where _outlierRunner returns to
    row,         \* the row the job appended to results.csv
    hist,        \* what the job did so far (observation only)
    interp,      \* the interpolation of an atmosphere model: its inputs and result
    inflight,    \* the jobs whose call of MOOGSILENT has not returned
    moog,        \* a call of fun_moog or of the solver: its inputs and result
    ares         \* a call of aresRunner: its files and its position

vars == <<pc, jobIdx, exception, line0, options, initial, parameters, converged,
          files, par, summary, outliers, newLineList, ret, row, hist, interp,
          inflight, moog, ares>>

\* The observation record at the start of a job.
NoHist ==
    [origName |-> Name("", 0, TRUE), \* the name the descriptor gave
     origLines |-> {},             \* the contents of that file at the start
     runs |-> 0,                   \* solver runs started
     failed |-> FALSE,             \* some solver run raised ValueError
     startedFrom |-> DefaultInitial, \* start vector of the last solver run
     prevReturned |-> DefaultInitial, \* vector the run before it returned
     returned |-> DefaultInitial,  \* vector the last returning run returned
     tagsParsed |-> Tags(Defaults), \* the tags _options produced
     tagsSeen |-> Tags(Defaults),  \* the tags the last solver run was given
     runConverged |-> FALSE,       \* the converged the last returning run returned
     critParsed |-> Crit(Defaults), \* the thresholds _options produced
     critSeen |-> Crit(Defaults),  \* the thresholds the last solver run was given
     refined |-> FALSE,            \* the refine pass ran
     rows |-> 0,                   \* rows the job appended to results.csv
     vtFixed |-> FALSE,            \* the auto-fix of vt fired
     autofixes |-> 0,              \* restarts the auto-fix of vt made
     largeRW |-> FALSE,            \* abs(RWs) > 0.050 at the auto-fix that fired
     removed |-> {},               \* lines removed from the job's line list
     detectRun |-> 0,              \* the run whose report the last detection read
     hits |-> 0,                   \* detections of this runner call that found outliers
     reruns |-> 0,                 \* solver runs of this runner call
     flagged |-> {},               \* lines the rule flagged in the last round
     worst |-> 0,                  \* the worst line of the last round's report
     dropped |-> {}]               \* lines the last round removed

Init ==
    /\ pc = "read"
    /\ jobIdx = 0
    /\ exception = ""
    /\ line0 = Name("", 0, TRUE)
    /\ options = Defaults
    /\ initial = DefaultInitial
    /\ parameters = DefaultInitial
    /\ converged = FALSE
    /\ files = [k \in {} |-> {}]
    /\ par = Name("", 0, TRUE)
    /\ summary = EmptySummary
    /\ outliers = EmptyDict
    /\ newLineList = FALSE
    /\ ret = "teffrange"
    /\ row = NoRow
    /\ hist = NoHist
    /\ interp = NoInterp
    /\ inflight = {}
    /\ moog = NoMoog
    /\ ares = NoAres

\* ---------------------------------------------------------------- helpers
\* The line list the engine reads: the file the parameter file names.
ActiveLines == IF par \in DOMAIN files THEN files[par] ELSE {}

\* An exception leaves ewdriver: the loop over the descriptors ends.
Crash(name) ==
    /\ pc' = "crashed"
    /\ exception' = name

\* A restart from the job's initial guess.
RestartVector_Cold(params, init) == init

\* The vector a restart of the solver is given (Minimize(parameters, ...)).
RestartVector(params, init) == params

\* The observation of a solver run started at x0 with the options opts.
Observe(h, x0, opts, o) ==
    [h EXCEPT !.runs = @ + 1,
              !.failed = @ \/ o.raised,
              !.startedFrom = x0,
              !.prevReturned = h.returned,
              !.returned = IF o.raised THEN @ ELSE o.parameters,
              !.runConverged = IF o.raised THEN @ ELSE o.converged,
              !.tagsSeen = Tags(opts),
              !.critSeen = Crit(opts)]

\* The lines the detection rule flags in a report.
FlaggedLines(s, n) ==
    LET fe1 == Stage(DOMAIN s, 1)
        fe2 == Stage(DOMAIN s, 2)
        st1 == StageStats(s, fe1)
        st2 == StageStats(s, fe2)
    IN  {w \in fe1 : IsOutlier(s[w], st1, n)}
        \cup
        (IF Fe2Screened(fe2) THEN {w \in fe2 : IsOutlier(s[w], st2, n)} ELSE {})

\* ------------------------------------------------------------ the job loop
\* ewdriver, lines 482-525: read the next descriptor and set the job up.
ReadJob ==
    /\ pc = "read"
    /\ jobIdx < NJobs
    /\ jobIdx' = jobIdx + 1
    /\ \E job \in Descriptors :
         LET r == ParseOptions(job.opts)
             name == Name("star", 0, job.list.moog)
         IN  IF job.form # "job"
             THEN \* a header, a wrong number of fields, a missing file: continue
                  /\ pc' = "read"
                  /\ UNCHANGED <<exception, line0, options, initial, parameters,
                                 converged, files, par, summary, outliers,
                                 newLineList, ret, row, hist>>
             ELSE
               /\ line0' = name
               /\ files' = (name :> ListContents(job.list.kind))
               /\ par' = name
               /\ options' = IF r.exc # "" THEN options ELSE r.opts  \* _options raised: not bound
               /\ initial' = job.initial
               /\ parameters' = job.initial
               /\ converged' = FALSE
               /\ summary' = EmptySummary
               /\ outliers' = EmptyDict
               /\ newLineList' = FALSE
               /\ ret' = "teffrange"
               /\ row' = NoRow
               /\ hist' = [NoHist EXCEPT !.origName = name,
                                         !.origLines = ListContents(job.list.kind),
                                         !.tagsParsed = Tags(r.opts),
                                         !.tagsSeen = Tags(r.opts),
                                         !.critParsed = Crit(r.opts),
                                         !.critSeen = Crit(r.opts),
                                         !.startedFrom = job.initial,
                                         !.prevReturned = job.initial,
                                         !.returned = job.initial]
               /\ IF r.exc # ""
                  THEN Crash(r.exc)                \* _setup raised
                  ELSE IF ~ModelAvailable(r.opts)
                  THEN pc' = "read" /\ exception' = exception  \* logged, continue
                  ELSE IF ~InGrid(job.initial)
                  THEN Crash("OutOfGrid")          \* interpolator raised
                  ELSE pc' = "minimize" /\ exception' = exception
    /\ UNCHANGED <<interp, inflight, moog, ares>>

\* ewdriver, lines 527-535: the first solver run of the job.
StartMinimize ==
    /\ pc = "minimize"
    /\ \E s \in Reports(ActiveLines), o \in Minimize(initial, ActiveLines, options) :
         /\ summary' = s
         /\ hist' = Observe(hist, initial, options, o)
         /\ IF o.raised
            THEN /\ pc' = "read"                   \* except ValueError: continue
                 /\ UNCHANGED <<parameters, converged>>
            ELSE /\ parameters' = o.parameters
                 /\ converged' = o.converged
                 /\ pc' = IF options.outlier # "False" THEN "outlier" ELSE "teffrange"
    /\ ret' = "teffrange"
    /\ UNCHANGED <<jobIdx, exception, line0, options, initial, files, par,
                   outliers, newLineList, row>>
    /\ UNCHANGED <<interp, inflight, moog, ares>>

\* A call that gives the engine up and lets the loop go on.
AfterHang_NextJob == "read"

\* os.system returns when MOOGSILENT exits, and not before.
AfterHang == "hung"

\* _run_moog, lines 20-21, within the first solver run of the job: MOOGSILENT
\* does not exit.
EngineHang ==
    /\ pc = "minimize"
    /\ inflight' = inflight \cup {jobIdx}
    /\ pc' = AfterHang
    /\ UNCHANGED <<jobIdx, exception, line0, options, initial, parameters,
                   converged, files, par, summary, outliers, newLineList, ret,
                   row, hist, interp, moog, ares>>

\* _outlierRunner, lines 301-306: copy the list, point the engine at the
\* copy, and detect on the report of the last run.
OutlierStart ==
    /\ pc = "outlier"
    /\ files' = Store(files, Tmp, files[line0])
    /\ par' = Tmp
    /\ newLineList' = FALSE
    /\ outliers' = hasOutlier(summary, options.sigma)
    /\ hist' = [hist EXCEPT !.detectRun = hist.runs,
                            !.hits = IF outliers' # EmptyDict THEN 1 ELSE 0,
                            !.reruns = 0,
                            !.flagged = {}, !.worst = 0, !.dropped = {}]
    /\ pc' = "outlierLoop"
    /\ UNCHANGED <<jobIdx, exception, line0, options, initial, parameters,
                   converged, summary, ret, row>>
    /\ UNCHANGED <<interp, inflight, moog, ares>>

\* A runner whose Iter types stop after one round, as the Once types do.
KeepGoing_OneRound(type, d, reruns) ==
    /\ d # EmptyDict
    /\ reruns = 0

\* while outliers (the Iter types) / if outliers (the Once types): whether
\* the body runs, given the solver runs this call has made.
KeepGoing(type, d, reruns) ==
    /\ d # EmptyDict
    /\ type \in {"1Iter", "allIter"} \/ reruns = 0

\* The wavelengths a round removes: the worst line, or every line the
\* dictionary holds.
Targets(type, d) ==
    IF type \in {"1Iter", "1Once"} THEN {d[MaxKey(d)]} ELSE DictValues(d)

\* The restart of the solver inside a round and the detection on its report:
\* lines 316-318, 329-331, 342-344, 355-357.  kept is the trimmed copy, s the
\* report the run leaves, d the outliers detected in it.
RestartAndDetect(kept, x0, h, s, d) ==
    \E o \in Minimize(x0, kept, options) :
       /\ summary' = s
       /\ IF o.raised
          THEN /\ Crash("ValueError")              \* not caught in the runner
               /\ hist' = Observe(h, x0, options, o)
               /\ UNCHANGED <<parameters, converged, outliers>>
          ELSE /\ parameters' = o.parameters
               /\ converged' = converged           \* the runner's is a local
               /\ outliers' = d
               /\ hist' = [Observe(h, x0, options, o) EXCEPT
                             !.detectRun = h.runs + 1,
                             !.hits = IF d # EmptyDict THEN @ + 1 ELSE @]
               /\ pc' = "outlierLoop"
               /\ exception' = exception

\* The removal of a round (lines 310-313, 323-326, 336-340, 349-353), then
\* the restart.
RemoveAndRestart(kept, h) ==
    /\ files' = Store(files, Tmp, kept)
    /\ newLineList' = TRUE
    /\ \E s \in Reports(files'[par]) :
         RestartAndDetect(files'[par], RestartVector(parameters, initial), h, s,
                          hasOutlier(s, options.sigma))

\* _outlierRunner, lines 307-357: one pass of the body: remove, restart the
\* solver at the previous parameters, detect again.
OutlierRound ==
    /\ pc = "outlierLoop"
    /\ KeepGoing(options.outlier, outliers, hist.reruns)
    /\ RemoveAndRestart(
         RemoveAll(files[Tmp], Targets(options.outlier, outliers)),
         [hist EXCEPT
            !.flagged = FlaggedLines(summary, options.sigma),
            !.worst = outliers[MaxKey(outliers)],
            !.dropped = files[Tmp] \ RemoveAll(files[Tmp], Targets(options.outlier, outliers)),
            !.removed = @ \cup (files[Tmp] \ RemoveAll(files[Tmp], Targets(options.outlier, outliers))),
            !.reruns = @ + 1])
    /\ UNCHANGED <<jobIdx, line0, options, initial, par, ret, row>>
    /\ UNCHANGED <<interp, inflight, moog, ares>>

\* A runner that returns the name it was given even after a removal.
ReturnedList_SameName(linelist, newName, changed) == linelist

\* The name _outlierRunner returns (return newName / return linelist).
ReturnedList(linelist, newName, changed) == IF changed THEN newName ELSE linelist

\* _outlierRunner, lines 359-367: store the trimmed list under its new name,
\* remove the copy, point the engine at the list and return its name.
OutlierReturn ==
    /\ pc = "outlierLoop"
    /\ ~KeepGoing(options.outlier, outliers, hist.reruns)
    /\ LET newName == NewName(line0)
       IN  /\ files' = IF newLineList
                       THEN Delete(Store(files, newName, files[Tmp]), Tmp)
                       ELSE Delete(files, Tmp)
           /\ par' = IF newLineList THEN newName ELSE line0
           /\ line0' = ReturnedList(line0, newName, newLineList)
    /\ outliers' = EmptyDict
    /\ newLineList' = FALSE
    /\ hist' = [hist EXCEPT !.detectRun = 0, !.hits = 0, !.reruns = 0,
                            !.flagged = {}, !.worst = 0, !.dropped = {}]
    /\ pc' = ret
    /\ UNCHANGED <<jobIdx, exception, options, initial, parameters, converged,
                   summary, ret, row>>
    /\ UNCHANGED <<interp, inflight, moog, ares>>

\* np.any(normalLL) and (parameters[0] < 5200)
PruneForLowTeff(opts, lines, x) ==
    /\ opts.teffrange
    /\ lines \cap CoolNormalDiff # {}
    /\ ~(x.teff > TeffHigh)
    /\ x.teff < TeffLow

\* ewdriver, lines 541-563: the teff-range check; below 5200 K the lines of
\* the cool-star difference list are removed from the list line[0] names and
\* the solver is restarted; a ValueError of that run is only logged.
TeffRange ==
    /\ pc = "teffrange"
    /\ IF PruneForLowTeff(options, files[line0], parameters)
       THEN LET kept == RemoveAll(files[line0], files[line0] \cap CoolNormalDiff)
                x0 == RestartVector(parameters, initial)
                h == [hist EXCEPT !.removed = @ \cup (files[line0] \ kept)]
            IN  /\ files' = Store(files, line0, kept)
                /\ \E s \in Reports(files'[par]), o \in Minimize(x0, files'[par], options) :
                     /\ summary' = s
                     /\ hist' = Observe(h, x0, options, o)
                     /\ parameters' = IF o.raised THEN parameters ELSE o.parameters
                     /\ converged' = IF o.raised THEN converged ELSE o.converged
                /\ pc' = IF options.outlier # "False" THEN "outlier" ELSE "autofix"
       ELSE /\ pc' = "autofix"
            /\ UNCHANGED <<files, summary, hist, parameters, converged>>
    /\ ret' = "autofix"
    /\ UNCHANGED <<jobIdx, exception, line0, options, initial, par, outliers,
                   newLineList, row>>
    /\ UNCHANGED <<interp, inflight, moog, ares>>

\* A boundary test that lost a digit of the upper bound.
VtAtBoundary_LowCeiling(x) == x.vt < 5 \/ x.vt > 95

\* (vt < 0.05) or (vt > 9.95), vt in units of 0.01
VtAtBoundary(x) == x.vt < 5 \/ x.vt > 995

\* An auto-fix that fixes teff instead of vt.
FreezeVt_Teff(opts) == [opts EXCEPT !.fix_teff = TRUE]

\* options['fix_vt'] = True
FreezeVt(opts) == [opts EXCEPT !.fix_vt = TRUE]

\* ewdriver, lines 565-572: evaluate the engine once at the parameters; with
\* vt at a boundary and a large RW slope, fix vt and restart the solver.
AutoFix ==
    /\ pc = "autofix"
    /\ IF options.autofixvt /\ ~converged
       THEN \E s \in Reports(ActiveLines), largeRW \in BOOLEAN :
              IF VtAtBoundary(parameters) /\ largeRW
              THEN LET x0 == RestartVector(parameters, initial)
                       h == [hist EXCEPT !.vtFixed = TRUE, !.autofixes = @ + 1,
                                         !.largeRW = largeRW]
                   IN  /\ options' = FreezeVt(options)
                       /\ \E s1 \in Reports(ActiveLines),
                             o \in Minimize(x0, ActiveLines, options') :
                            /\ summary' = s1
                            /\ hist' = Observe(h, x0, options', o)
                            /\ IF o.raised
                               THEN /\ Crash("ValueError")
                                    /\ UNCHANGED <<parameters, converged>>
                               ELSE /\ parameters' = o.parameters
                                    /\ converged' = o.converged
                                    /\ pc' = "refine"
                                    /\ exception' = exception
              ELSE /\ summary' = s
                   /\ pc' = "refine"
                   /\ UNCHANGED <<exception, options, parameters, converged, hist>>
       ELSE /\ pc' = "refine"
            /\ UNCHANGED <<exception, options, parameters, converged, summary, hist>>
    /\ UNCHANGED <<jobIdx, line0, initial, files, par, outliers, newLineList,
                   ret, row>>
    /\ UNCHANGED <<interp, inflight, moog, ares>>

\* A third that is cut off after the fourth decimal instead of rounded.
Third_Truncated(x) == x \div 3

\* round(x/3, 4) on a threshold in units of 1e-4.
Third(x) == (2 * x + 3) \div 6

\* A refine pass whose vector is kept whatever its outcome.
KeepRefined_Always(params, p1, c) == p1

\* if c: parameters = p1
KeepRefined(params, p1, c) == IF c THEN p1 ELSE params

\* ewdriver, lines 574-587: the refine pass; its vector is kept only if the
\* pass converged.
Refine ==
    /\ pc = "refine"
    /\ IF converged /\ options.refine
       THEN LET x0 == RestartVector(parameters, initial) IN
            /\ options' = [options EXCEPT !.EPcrit = Third(@), !.RWcrit = Third(@),
                                          !.ABdiffcrit = Third(@)]
            /\ \E s \in Reports(ActiveLines), o \in Minimize(x0, ActiveLines, options') :
                 /\ summary' = s
                 /\ hist' = Observe([hist EXCEPT !.refined = TRUE], x0, options', o)
                 /\ IF o.raised
                    THEN /\ Crash("ValueError")
                         /\ parameters' = parameters
                    ELSE /\ parameters' = KeepRefined(parameters, o.parameters, o.converged)
                         /\ pc' = "output"
                         /\ exception' = exception
       ELSE /\ pc' = "output"
            /\ UNCHANGED <<exception, options, parameters, summary, hist>>
    /\ UNCHANGED <<jobIdx, line0, initial, converged, files, par, outliers,
                   newLineList, ret, row>>
    /\ UNCHANGED <<interp, inflight, moog, ares>>

\* -------------------------------------------------- the row of results.csv
\* The coefficients of the two corrections of logg: the slopes in units of
\* 0.000001 per K, the offsets in units of 0.01.
LCSlope == 457
LCOffset == 259
AsteroSlope == 389
AsteroOffset == 210

\* The errors error() can return, as (Teff error in K, logg error, [Fe/H]
\* error and vt error in units of 0.01).  The Teff errors are multiples of
\* 10 K, which keeps the arithmetic below in whole numbers.
ErrorOutcomes == {<<50, 10, 4, 5>>, <<120, 3, 9, 20>>}

\* The tuple error() returns: each parameter followed by its error.
error(x, e) == <<x.teff, e[1], x.logg, e[2], x.feh, e[3], x.vt, e[4]>>

\* round(x, 2) of a value of x / unit hundredths.
Round2(x, unit) ==
    IF x >= 0 THEN (2 * x + unit) \div (2 * unit)
              ELSE -((2 * (-x) + unit) \div (2 * unit))

\* round(np.sqrt(n), 2), n in units of 0.00001 squared: the number r of
\* hundredths with r - 1/2 <= sqrt(n) / 1000 < r + 1/2.
RoundedRoot(n) ==
    CHOOSE r \in 0 .. (n \div 1000000) + 1 :
        /\ r > 0 => ((2 * r - 1) * 500) * ((2 * r - 1) * 500) <= n
        /\ n < ((2 * r + 1) * 500) * ((2 * r + 1) * 500)

\* round(parameters[2] - slope*parameters[0] + offset, 2), in units of 0.01;
\* p is the tuple of error(), whose first element is p[1].
CorrectedLogg(p, slope, offset) ==
    Round2(p[3] * 10000 - slope * p[1] + offset * 10000, 10000)

\* An error that takes the error of [Fe/H] for the second term.
CorrectedLoggError_Feh(p, slope) ==
    RoundedRoot(((slope * p[2]) \div 10) * ((slope * p[2]) \div 10)
                + (p[6] * 1000) * (p[6] * 1000))

\* round(np.sqrt((slope*parameters[1])**2 + (parameters[3])**2), 2), in units
\* of 0.01.
CorrectedLoggError(p, slope) ==
    RoundedRoot(((slope * p[2]) \div 10) * ((slope * p[2]) \div 10)
                + (p[4] * 1000) * (p[4] * 1000))

\* The names _output gives to the columns after 'linelist' that hold the
\* parameters list.
Header ==
    <<"teff", "tefferr", "logg", "loggerr", "feh", "feherr", "vt", "vterr",
      "loggastero", "dloggastero", "loggLC", "dloggLC">>

\* ewdriver, lines 590-601: the parameters list of the row.
RowParameters(x, e) ==
    LET p == error(x, e)
    IN  p \o <<CorrectedLogg(p, AsteroSlope, AsteroOffset),
               CorrectedLoggError(p, AsteroSlope),
               CorrectedLogg(p, LCSlope, LCOffset),
               CorrectedLoggError(p, LCSlope)>>

\* A loop body that comes back to its last statements.
AfterOutput_Again == "output"

\* The end of the loop body: on to the next line of the configuration file.
AfterOutput == "read"

\* ewdriver, lines 589-605: the row appended to results.csv.  The iteration
\* of the loop ends here: what it bound (line, options, the files of the job)
\* is bound anew by the next iteration and is let go of.
Output ==
    /\ pc = "output"
    /\ \E e \in ErrorOutcomes :
         row' = [written |-> TRUE, linelist |-> line0, parameters |-> parameters,
               columns |-> RowParameters(parameters, e),
               convergence |-> converged, tags |-> Tags(options),
               outlier |-> options.outlier, model |-> options.model,
               refine |-> options.refine, EPcrit |-> options.EPcrit,
               RWcrit |-> options.RWcrit, ABdiffcrit |-> options.ABdiffcrit]
    /\ hist' = [hist EXCEPT !.rows = @ + 1]
    /\ pc' = AfterOutput
    /\ line0' = Name("", 0, TRUE)
    /\ par' = Name("", 0, TRUE)
    /\ options' = Defaults
    /\ files' = [k \in {} |-> {}]
    /\ summary' = EmptySummary
    /\ UNCHANGED <<jobIdx, exception, initial, parameters, converged, outliers,
                   newLineList, ret>>
    /\ UNCHANGED <<interp, inflight, moog, ares>>

\* The loop over the descriptors ends: ewdriver returns.
Finish ==
    /\ pc = "read"
    /\ jobIdx = NJobs
    /\ pc' = "done"
    /\ UNCHANGED <<jobIdx, exception, line0, options, initial, parameters,
                   converged, files, par, summary, outliers, newLineList, ret,
                   row, hist>>
    /\ UNCHANGED <<interp, inflight, moog, ares>>

Next ==
    \/ ReadJob
    \/ StartMinimize
    \/ EngineHang
    \/ OutlierStart
    \/ OutlierRound
    \/ OutlierReturn
    \/ TeffRange
    \/ AutoFix
    \/ Refine
    \/ Output
    \/ Finish

Spec == Init /\ [][Next]_vars

\* The interpreter takes the next step of ewdriver whenever there is one; no
\* such condition is put on EngineHang, which MOOGSILENT may never take.  For
\* the two steps of _outlierRunner the condition is written out with the
\* step's guard in the place of ENABLED.
SpecLive ==
    /\ Init /\ [][Next]_vars
    /\ WF_vars(ReadJob) /\ WF_vars(StartMinimize) /\ WF_vars(OutlierReturn)
    /\ WF_vars(TeffRange) /\ WF_vars(AutoFix) /\ WF_vars(Refine)
    /\ WF_vars(Output) /\ WF_vars(Finish)
    /\ (<>[](pc = "outlier") => []<><<OutlierStart>>_vars)
    /\ (<>[](pc = "outlierLoop" /\ KeepGoing(options.outlier, outliers, hist.reruns))
          => []<><<OutlierRound>>_vars)

\* ------------------------------------------------ the detection on its own
\* The reports the detection is applied to on its own: the first m FeI lines
\* and the first j FeII lines, some of them off the rest.
DetectInputs ==
    UNION {Reports({500010 + 100 * k : k \in 0 .. (m - 1)} \cup Fe2Lines(j)) :
             m \in 1 .. NFe1, j \in 0 .. (Fe2Screen + 2)}

InitDetect ==
    /\ pc = "detect"
    /\ jobIdx = 0
    /\ exception = ""
    /\ line0 = Name("", 0, TRUE)
    /\ \E n \in 1 .. DefaultSigma : options = [Defaults EXCEPT !.sigma = n]
    /\ initial = DefaultInitial
    /\ parameters = DefaultInitial
    /\ converged = FALSE
    /\ files = [k \in {} |-> {}]
    /\ par = Name("", 0, TRUE)
    /\ summary \in DetectInputs
    /\ outliers = EmptyDict
    /\ newLineList = FALSE
    /\ ret = "teffrange"
    /\ row = NoRow
    /\ hist = NoHist
    /\ interp = NoInterp
    /\ inflight = {}
    /\ moog = NoMoog
    /\ ares = NoAres

\* outliers = hasOutlier(MOOGv=options['MOOGv'], n=options['sigma'])
Detect ==
    /\ pc = "detect"
    /\ outliers' = hasOutlier(summary, options.sigma)
    /\ pc' = "detected"
    /\ UNCHANGED <<jobIdx, exception, line0, options, initial, parameters,
                   converged, files, par, summary, newLineList, ret, row, hist>>
    /\ UNCHANGED <<interp, inflight, moog, ares>>

NextDetect == Detect

SpecDetect == InitDetect /\ [][NextDetect]_vars

\* ------------------------------------------- the interpolation of a model
\* The layers and columns of the longest atmosphere model, and the
\* denominator of the fractional coordinates.
MaxLayers == 2
MaxColumns == 2
CoordDen == 2

\* The cells of a deck of the given shape.
Cells(layers, columns) == (1 .. layers) \X (1 .. columns)

\* A layer count that is written into the code.
Layers_Hardcoded(deck) == MaxLayers - 1

\* The number of layers and of columns of a deck (model.shape).
Layers(deck) == Cardinality({cell[1] : cell \in DOMAIN deck})
Columns(deck) == Cardinality({cell[2] : cell \in DOMAIN deck})

\* min([...]) of a set of numbers.
MinOf(S) == CHOOSE x \in S : \A y \in S : x <= y

\* The deck read_model returns for a model file: model number k of the list
\* mnames, short by one layer or one column if the file is.
ReadModel(k, seed, shortLayer, shortColumn) ==
    [cell \in Cells(IF k = shortLayer THEN MaxLayers - 1 ELSE MaxLayers,
                    IF k = shortColumn THEN MaxColumns - 1 ELSE MaxColumns)
       |-> 100 * ((seed * k) % 8) + 10 * cell[1] + cell[2]]

\* An unravelling in Fortran order.
Unravel_FortranOrder(cntr) == <<cntr % 2, (cntr \div 2) % 2, cntr \div 4>>

\* np.unravel_index(cntr, (2, 2, 2))
Unravel(cntr) == <<cntr \div 4, (cntr \div 2) % 2, cntr % 2>>

\* The weights of order=0: all on the sample nearer to the coordinate.
Weight_Nearest(a, i) ==
    IF (2 * a >= CoordDen) <=> (i = 1) THEN CoordDen ELSE 0

\* The weight linear interpolation gives the sample at index i in {0, 1} of
\* an axis, at the coordinate a / CoordDen; in units of 1 / CoordDen.
Weight(a, i) == IF i = 0 THEN CoordDen - a ELSE a

\* ndimage.interpolation.map_coordinates(tlayer, coord, order=1) on the
\* 2 x 2 x 2 array tlayer; in units of 1 / CoordDen^3.
MapCoordinates(tlayer, coord) ==
    LET term[n \in 0 .. 7] ==
          LET idx == <<n \div 4, (n \div 2) % 2, n % 2>>
          IN  Weight(coord[1], idx[1]) * Weight(coord[2], idx[2])
                * Weight(coord[3], idx[3]) * tlayer[idx]
    IN  SumOver(term, 0 .. 7)

\* for cntr in range(N): tlayer[idxs[cntr]] = models[cntr][layer, column]
TLayer(models, cell) ==
    [idx \in {0, 1} \X {0, 1} \X {0, 1} |->
        models[CHOOSE cntr \in 0 .. 7 : Unravel(cntr) = idx][cell]]

\* interpolator, lines 175-186: newdeck.
Interpolate(models, coord) ==
    LET layers == MinOf({Layers(models[k]) : k \in DOMAIN models})
        columns == MinOf({Columns(models[k]) : k \in DOMAIN models})
    IN  [cell \in Cells(layers, columns) |->
           MapCoordinates(TLayer(models, cell), coord)]

\* The source cells a cell of interpolator's newdeck is computed from.
InterpolateReads(models) ==
    LET layers == MinOf({Layers(models[k]) : k \in DOMAIN models})
        columns == MinOf({Columns(models[k]) : k \in DOMAIN models})
    IN  [cell \in Cells(layers, columns) |-> {<<k, cell>> : k \in 0 .. 7}]

\* The 16 models of interpolatorN7's mnames: the model at the t-th of the 4
\* teff values, the g-th of the 2 logg values and the f-th of the 2 [Fe/H]
\* values.
N7Keys == (1 .. 4) \X (1 .. 2) \X (1 .. 2)

\* The deck of a model of interpolatorN7, each cell standing for itself: the
\* set of the cells of the model files it is computed from.
N7Source(key, shortLayer, shortColumn) ==
    [cell \in Cells(IF key = shortLayer THEN MaxLayers - 1 ELSE MaxLayers,
                    IF key = shortColumn THEN MaxColumns - 1 ELSE MaxColumns)
       |-> {<<key, cell>>}]

\* _interpol(models, param, kind, layers, columns): newatm[layer, column] is
\* fitted to v[layer, column] of every model v of models.
N7Interpol(models, layers, columns) ==
    [cell \in Cells(layers, columns) |->
       UNION {models[k][cell] : k \in DOMAIN models}]

\* The layers of a model whose optical-depth scale is built, and the values
\* its column mass and its absorption take in a layer.
TauLayers == 3
TauValues == 0 .. 2

RECURSIVE Accumulate(_, _)
\* np.add.accumulate over the first n elements of the sequence f.
Accumulate(f, n) ==
    IF n = 0 THEN <<>>
    ELSE LET before == Accumulate(f, n - 1)
         IN  Append(before, (IF n = 1 THEN 0 ELSE before[n - 1]) + f[n])

\* tauross_scale(abross, rhox): twice the scale, which keeps the halves of
\* the trapezoids whole.  The first element is initial = rhox[0]*abross[0],
\* the others the accumulated d * (y[slice1] + y[slice2]) / 2.0 with d = 1.
tauross_scale(abross, rhox) ==
    LET y == [i \in DOMAIN rhox |-> rhox[i] * abross[i]]
        trapezoids == [i \in 1 .. Len(y) - 1 |-> y[i + 1] + y[i]]
    IN  <<2 * y[1]>> \o Accumulate(trapezoids, Len(y) - 1)

\* The optical-depth scale read_model returns with the deck of model number k
\* (tatm[1]): tauross_scale of the file's columns 4 and 0, which hold values
\* of the kind ReadModel gives the columns of the deck.
ReadModelTauross(k, seed, shortLayer) ==
    LET layers == IF k = shortLayer THEN MaxLayers - 1 ELSE MaxLayers
        value(l, c) == 100 * ((seed * k) % 8) + 10 * l + c
    IN  tauross_scale([l \in 1 .. layers |-> value(l, 5)],
                      [l \in 1 .. layers |-> value(l, 1)])

\* np.amin and np.amax of a scale.
Amin(scale) == MinOf({scale[i] : i \in DOMAIN scale})
Amax(scale) == CHOOSE x \in {scale[i] : i \in DOMAIN scale} :
                   \A i \in DOMAIN scale : scale[i] <= x

\* The columns of the decks _interpol is called on by itself, and the values
\* of their cells.
FitColumns == 1
FitValues == 0 .. 2

\* The determinant of the 3 x 3 matrix with the rows r1, r2, r3.
Det3(r1, r2, r3) ==
    r1[1] * (r2[2] * r3[3] - r2[3] * r3[2])
    - r1[2] * (r2[1] * r3[3] - r2[3] * r3[1])
    + r1[3] * (r2[1] * r3[2] - r2[2] * r3[1])

\* The sum of d^k * w over the samples, d their distances and w their weights.
PowerSum(dist, w, k) ==
    SumOver([i \in DOMAIN dist |->
               (IF k = 0 THEN 1
                ELSE IF k = 1 THEN dist[i]
                ELSE IF k = 2 THEN dist[i] * dist[i]
                ELSE IF k = 3 THEN dist[i] * dist[i] * dist[i]
                ELSE dist[i] * dist[i] * dist[i] * dist[i]) * w[i]],
            DOMAIN dist)

\* np.polyfit(dist, params, deg) for deg 1 and 2: the least-squares
\* polynomial c[1] + c[2]*x + c[3]*x^2, its coefficients over the common
\* denominator den (the solution of the normal equations by Cramer's rule).
PolyFit(dist, params, deg) ==
    LET one == [i \in DOMAIN dist |-> 1]
        S(k) == PowerSum(dist, one, k)
        T(k) == PowerSum(dist, params, k)
    IN  IF deg = 2
        THEN [den |-> Det3(<<S(0), S(1), S(2)>>, <<S(1), S(2), S(3)>>,
                           <<S(2), S(3), S(4)>>),
              c |-> << Det3(<<T(0), S(1), S(2)>>, <<T(1), S(2), S(3)>>,
                            <<T(2), S(3), S(4)>>),
                       Det3(<<S(0), T(0), S(2)>>, <<S(1), T(1), S(3)>>,
                            <<S(2), T(2), S(4)>>),
                       Det3(<<S(0), S(1), T(0)>>, <<S(1), S(2), T(1)>>,
                            <<S(2), S(3), T(2)>>) >>]
        ELSE [den |-> S(0) * S(2) - S(1) * S(1),
              c |-> << T(0) * S(2) - S(1) * T(1),
                       S(0) * T(1) - S(1) * T(0),
                       0 >>]

\* A fit that is a line whatever the number of models.
Degree_AlwaysLinear(N) == 1

\* if N > 2: deg=2, else: deg=1
Degree(N) == IF N > 2 THEN 2 ELSE 1

\* _interpol, lines 250-276, for one cell: the fit p to the cell of every
\* model against the distances, and p0 = np.polyval(p, 0) as num / den.
InterpolCell(dist, models, cell) ==
    LET p == PolyFit(dist, [i \in DOMAIN dist |-> models[i][cell]],
                     Degree(Len(dist)))
    IN  [p |-> p, p0 |-> [num |-> p.c[1], den |-> p.den]]

\* The inputs of interpolator: the decks of the 8 models of mnames, model
\* 4i + 2j + k the one at the bracket values i, j, k of teff, logg, feh, and
\* the target's fractional coordinates c1, c2, c3.
InitInterp ==
    /\ pc = "interpolate"
    /\ jobIdx = 0
    /\ exception = ""
    /\ line0 = Name("", 0, TRUE)
    /\ options = Defaults
    /\ initial = DefaultInitial
    /\ parameters = DefaultInitial
    /\ converged = FALSE
    /\ files = [k \in {} |-> {}]
    /\ par = Name("", 0, TRUE)
    /\ summary = EmptySummary
    /\ outliers = EmptyDict
    /\ newLineList = FALSE
    /\ ret = "teffrange"
    /\ row = NoRow
    /\ hist = NoHist
    /\ inflight = {}
    /\ moog = NoMoog
    /\ ares = NoAres
    /\ \/ \E seed \in {1, 3}, shortLayer \in 0 .. 8, shortColumn \in 0 .. 8,
             c1 \in 0 .. CoordDen, c2 \in 0 .. CoordDen, c3 \in 0 .. CoordDen :
            interp = [pc |-> "interpolator",
                      models |-> [k \in 0 .. 7 |->
                                    ReadModel(k, seed, shortLayer, shortColumn)],
                      tauross |-> [k \in 0 .. 7 |->
                                     ReadModelTauross(k, seed, shortLayer)],
                      coord |-> <<c1, c2, c3>>]
       \/ \E shortLayer \in N7Keys \cup {<<0, 0, 0>>},
             shortColumn \in N7Keys \cup {<<0, 0, 0>>} :
            interp = [pc |-> "interpolatorN7",
                      models |-> [key \in N7Keys |->
                                    N7Source(key, shortLayer, shortColumn)],
                      order |-> <<>>]
       \/ \E N \in {2, 4}, target \in 0 .. 2 :
            \E values \in [1 .. N -> [Cells(1, FitColumns) -> FitValues]] :
               interp = [pc |-> "_interpol",
                         \* twice kv - param: the models are one step apart, the
                         \* target is on a model or midway between two
                         dist |-> [i \in 1 .. N |->
                                     2 * (i - 1) - (N - 2 + target)],
                         models |-> values]
       \/ \E rhox \in [1 .. TauLayers -> TauValues],
             abross \in [1 .. TauLayers -> TauValues] :
            interp = [pc |-> "read_model", rhox |-> rhox, abross |-> abross]

\* interpolator(mnames, teff, logg, feh)
RunInterpolator ==
    /\ interp.pc = "interpolator"
    /\ interp' = [pc |-> "done",
                  models |-> interp.models,
                  tauross |-> interp.tauross,
                  opmin |-> [k \in 0 .. 7 |-> Amin(interp.tauross[k])],
                  opmax |-> [k \in 0 .. 7 |-> Amax(interp.tauross[k])],
                  coord |-> interp.coord,
                  newdeck |-> Interpolate(interp.models, interp.coord),
                  reads |-> InterpolateReads(interp.models)]
    /\ UNCHANGED <<pc, jobIdx, exception, line0, options, initial, parameters,
                   converged, files, par, summary, outliers, newLineList, ret,
                   row, hist, inflight, moog, ares>>

\* interpolatorN7, lines 298-319: layers and columns, the four groups of
\* models of one logg and one [Fe/H], and _interpol(models_t, teff, 'teff',
\* ...) on each.
N7CollapseTeff ==
    /\ interp.pc = "interpolatorN7"
    /\ LET layers == MinOf({Layers(interp.models[k]) : k \in N7Keys})
           columns == MinOf({Columns(interp.models[k]) : k \in N7Keys})
           models_t(g, f) == [k \in {x \in N7Keys : x[2] = g /\ x[3] = f}
                               |-> interp.models[k]]
       IN  interp' = [pc |-> "teffDone",
                      models |-> interp.models,
                      layers |-> layers,
                      columns |-> columns,
                      t |-> [gf \in (1 .. 2) \X (1 .. 2) |->
                               N7Interpol(models_t(gf[1], gf[2]), layers, columns)],
                      order |-> Append(interp.order, "teff")]
    /\ UNCHANGED <<pc, jobIdx, exception, line0, options, initial, parameters,
                   converged, files, par, summary, outliers, newLineList, ret,
                   row, hist, inflight, moog, ares>>

\* interpolatorN7, lines 322-342: L1 and L2, the results of one [Fe/H], and
\* _interpol(L, logg, 'logg', ...) on each.
N7CollapseLogg ==
    /\ interp.pc = "teffDone"
    /\ LET L(f) == [gf \in {x \in (1 .. 2) \X (1 .. 2) : x[2] = f} |-> interp.t[gf]]
       IN  interp' = [pc |-> "loggDone",
                      models |-> interp.models,
                      layers |-> interp.layers,
                      columns |-> interp.columns,
                      l |-> [f \in 1 .. 2 |->
                               N7Interpol(L(f), interp.layers, interp.columns)],
                      order |-> Append(interp.order, "logg")]
    /\ UNCHANGED <<pc, jobIdx, exception, line0, options, initial, parameters,
                   converged, files, par, summary, outliers, newLineList, ret,
                   row, hist, inflight, moog, ares>>

\* interpolatorN7, lines 344-349: M, and _interpol(M, feh, 'feh', ...).
N7CollapseFeh ==
    /\ interp.pc = "loggDone"
    /\ interp' = [pc |-> "doneN7",
                  models |-> interp.models,
                  reads |-> N7Interpol(interp.l, interp.layers, interp.columns),
                  order |-> Append(interp.order, "feh")]
    /\ UNCHANGED <<pc, jobIdx, exception, line0, options, initial, parameters,
                   converged, files, par, summary, outliers, newLineList, ret,
                   row, hist, inflight, moog, ares>>

\* A call of _interpol on the models of one axis: newatm, and the fit of each
\* cell.
RunInterpol ==
    /\ interp.pc = "_interpol"
    /\ LET fit == [cell \in Cells(1, FitColumns) |->
                     InterpolCell(interp.dist, interp.models, cell)]
       IN  interp' = [pc |-> "interpolDone",
                      dist |-> interp.dist,
                      models |-> interp.models,
                      p |-> [cell \in DOMAIN fit |-> fit[cell].p],
                      newatm |-> [cell \in DOMAIN fit |-> fit[cell].p0]]
    /\ UNCHANGED <<pc, jobIdx, exception, line0, options, initial, parameters,
                   converged, files, par, summary, outliers, newLineList, ret,
                   row, hist, inflight, moog, ares>>

\* read_model, line 127: the optical-depth scale of the model read.
ReadModelTau ==
    /\ interp.pc = "read_model"
    /\ interp' = [pc |-> "modelRead", rhox |-> interp.rhox,
                  abross |-> interp.abross,
                  tauross |-> tauross_scale(interp.abross, interp.rhox)]
    /\ UNCHANGED <<pc, jobIdx, exception, line0, options, initial, parameters,
                   converged, files, par, summary, outliers, newLineList, ret,
                   row, hist, inflight, moog, ares>>

NextInterp ==
    \/ RunInterpolator
    \/ ReadModelTau
    \/ RunInterpol
    \/ N7CollapseTeff
    \/ N7CollapseLogg
    \/ N7CollapseFeh

SpecInterp == InitInterp /\ [][NextInterp]_vars

\* -------------------------------------------------- the engine's report
\* The most lines a report of the engine holds here.
MaxReportLines == 4

\* ewdriver at rest, while a function is called on its own.
EwdriverIdle ==
    /\ pc = "idle"
    /\ jobIdx = 0
    /\ exception = ""
    /\ line0 = Name("", 0, TRUE)
    /\ options = Defaults
    /\ initial = DefaultInitial
    /\ parameters = DefaultInitial
    /\ converged = FALSE
    /\ files = [k \in {} |-> {}]
    /\ par = Name("", 0, TRUE)
    /\ summary = EmptySummary
    /\ outliers = EmptyDict
    /\ newLineList = FALSE
    /\ ret = "teffrange"
    /\ row = NoRow
    /\ hist = NoHist
    /\ inflight = {}

\* The variables of ewdriver.
ewVars == <<pc, jobIdx, exception, line0, options, initial, parameters,
            converged, files, par, summary, outliers, newLineList, ret, row,
            hist, inflight>>

\* The lines of summary.out: what a line starts with and the number after
\* its '='; slopes in units of 0.01, abundances in units of 0.000001.
ReportLines ==
    {[tag |-> "E.P", value |-> 0], [tag |-> "E.P", value |-> 2],
     [tag |-> "R.W", value |-> -1], [tag |-> "R.W", value |-> 3],
     [tag |-> "average abundance", value |-> 0],
     [tag |-> "average abundance", value |-> 5000],
     [tag |-> "Abundance Results", value |-> 0]}

\* The files summary.out can be.
SummaryFiles ==
    UNION {[1 .. n -> ReportLines] : n \in 0 .. MaxReportLines}

RECURSIVE ValuesOf(_, _)
\* The values of the lines of a report that start with tag, in file order.
ValuesOf(report, tag) ==
    IF report = <<>> THEN <<>>
    ELSE (IF Head(report).tag = tag THEN <<Head(report).value>> ELSE <<>>)
         \o ValuesOf(Tail(report), tag)

\* _read_moog: EP_slopes, RW_slopes, abundances.
ReadMoog(report) ==
    [EP_slopes |-> ValuesOf(report, "E.P"),
     RW_slopes |-> ValuesOf(report, "R.W"),
     abundances |-> ValuesOf(report, "average abundance")]

\* 5*((3.5*EPs[0])**2 + (1.3*RWs[0])**2 + d)**2, in units of 0.000001 squared.
Residual(ep, rw, d) ==
    5 * ((35 * ep) * (35 * ep) + (13 * rw) * (13 * rw) + d)
      * ((35 * ep) * (35 * ep) + (13 * rw) * (13 * rw) + d)

\* len(abundances) == 2
TwoAbundances(abundances) == Len(abundances) = 2

\* fun_moog, lines 78-90, after the engine wrote the report: what the call
\* returns or raises.
FunMoog(report, fix_logg) ==
    LET r == ReadMoog(report)
    IN  IF TwoAbundances(r.abundances)
        THEN IF r.EP_slopes = <<>> \/ r.RW_slopes = <<>>
             THEN [kind |-> "IndexError"]          \* EPs[0], RWs[0]
             ELSE [kind |-> "residual",
                   res |-> IF fix_logg
                           THEN Residual(r.EP_slopes[1], r.RW_slopes[1], 0)
                           ELSE Residual(r.EP_slopes[1], r.RW_slopes[1],
                                         r.abundances[Len(r.abundances)]
                                         - r.abundances[1])]
        ELSE [kind |-> "None"]                     \* falls off the end

\* The most evaluations a solver run makes here (options['iterations']).
MaxEvaluations == 3

\* The residuals an evaluation can give: (EP slope, RW slope, difference of
\* the abundances of the two ionization stages), in units of 0.0001.
Residuals ==
    {<<5, 20, 0>>, <<-5, -20, -99>>, <<10, 20, 0>>, <<5, -30, 0>>,
     <<5, 20, 100>>, <<25, 5, 0>>, <<0, 4, 0>>, <<1, 3, 0>>}

\* The test of the solver on the residuals of one evaluation, against the
\* thresholds crit handed to it.
IsConverged(r, crit) ==
    /\ Abs(r[1]) < crit[1]
    /\ Abs(r[2]) < crit[2]
    /\ Abs(r[3]) < crit[3]

\* The status of a solver run after its n-th evaluation gave r.
StatusAfter(n, r, crit) ==
    IF IsConverged(r, crit) THEN "CONVERGED"
    ELSE IF n >= MaxEvaluations THEN "MAX_ITER"
    ELSE "ITERATING"

\* Thresholds handed to the solver under each other's name.
Thresholds_Swapped(opts) == <<opts.RWcrit, opts.EPcrit, opts.ABdiffcrit>>

\* Minimize(initial, fun_moog, **options): the thresholds the solver is
\* given are those of the options dictionary, by name.
Thresholds(opts) == Crit(opts)

InitMoog ==
    /\ EwdriverIdle
    /\ interp = NoInterp
    /\ ares = NoAres
    /\ \/ \E report \in SummaryFiles, fix_logg \in BOOLEAN :
            moog = [pc |-> "fun_moog", report |-> report, fix_logg |-> fix_logg]
       \/ \E tokens \in {<<>>, <<Pair("EPcrit", "0.0001"), Pair("RWcrit", "0.0005"),
                                Flag("refine")>>} :
            moog = [pc |-> "minimize", opts |-> ParseOptions(tokens).opts,
                    status |-> "INIT", evaluations |-> 0,
                    residual |-> <<0, 0, 0>>]

\* One evaluation of a solver run: the engine gives residuals, and the solver
\* tests them.
Evaluate ==
    /\ moog.pc = "minimize"
    /\ moog.status \in {"INIT", "ITERATING"}
    /\ \E r \in Residuals :
         moog' = [moog EXCEPT
                    !.evaluations = @ + 1,
                    !.residual = r,
                    !.status = StatusAfter(moog.evaluations + 1, r,
                                           Thresholds(moog.opts))]
    /\ UNCHANGED <<ewVars, interp, ares>>

\* A call of fun_moog on a report.
CallFunMoog ==
    /\ moog.pc = "fun_moog"
    /\ moog' = [pc |-> "returned", report |-> moog.report,
                fix_logg |-> moog.fix_logg,
                result |-> FunMoog(moog.report, moog.fix_logg)]
    /\ UNCHANGED <<ewVars, interp, ares>>

NextMoog ==
    \/ CallFunMoog
    \/ Evaluate

SpecMoog == InitMoog /\ [][NextMoog]_vars

\* --------------------------------------------------------------- aresDriver
\* The wavelengths of the lines of a raw line list, in units of 0.01, and
\* the retries of aresRunner that are followed.
AresLines == {500010, 500015, 600023, 610000}
MaxRetries == 3

\* line.startswith(str(round(badline, 2))) for a line that begins with its
\* wavelength written with two decimals: str drops the last zero of the bad
\* line's wavelength, and the shorter text begins ten wavelengths.
StartsWithBadLine(line, badline) ==
    IF badline % 10 = 0 THEN line \div 10 = badline \div 10 ELSE line = badline

\* cleanLineList(linelist, badline): the lines the file keeps.
cleanLineList(linelist, badline) ==
    {line \in linelist : ~StartsWithBadLine(line, badline)}

\* _run_ares: ARES measures the lines of the list it is given in the order
\* of the list and logs each; it stops on the first line it cannot measure
\* and then writes no output file.  An ARES that cannot start logs nothing.
RunARES(list, bad, broken) ==
    IF broken THEN [out |-> FALSE, log |-> {}]
    ELSE IF list \cap bad = {} THEN [out |-> TRUE, log |-> list]
    ELSE LET first == MinOf(list \cap bad)
         IN  [out |-> FALSE, log |-> {line \in list : line <= first}]

\* findBadLine(): the last 'line result' of logARES.txt, 0 standing for None.
findBadLine(log) ==
    IF log = {} THEN 0
    ELSE CHOOSE line \in log : \A other \in log : other <= line

\* copyfile('rawLinelist/'+linelist, 'rawLinelist/tmp%i' % index): the list
\* a retry starts from.
RetryList(a) == a.linelist

InitAres ==
    /\ EwdriverIdle
    /\ interp = NoInterp
    /\ moog = NoMoog
    /\ \E linelist \in SUBSET AresLines \ {{}}, force \in BOOLEAN,
          broken \in BOOLEAN :
         \E bad \in SUBSET linelist :
            ares = [pc |-> "aresRunner", linelist |-> linelist, bad |-> bad,
                    broken |-> broken, force |-> force, presented |-> {},
                    index |-> 1, tmp |-> {}, out |-> FALSE, log |-> {},
                    removed |-> {}, exception |-> ""]

\* aresRunner, line 202: update_ares(linelist, ...) names the raw line list
\* in mine.opt.
AresStart ==
    /\ ares.pc = "aresRunner"
    /\ ares' = [ares EXCEPT !.pc = "_run_ares", !.presented = ares.linelist]
    /\ UNCHANGED <<ewVars, interp, moog>>

\* _run_ares(), lines 206 and 223.
AresRun ==
    /\ ares.pc = "_run_ares"
    /\ LET r == RunARES(ares.presented, ares.bad, ares.broken)
       IN  ares' = [ares EXCEPT !.pc = "ranAres", !.out = r.out, !.log = r.log]
    /\ UNCHANGED <<ewVars, interp, moog>>

\* aresRunner, lines 209-217: a retry of the force loop.  removed is the
\* history of the lines 'Removing line' was printed for.
AresRetry ==
    /\ ares.pc = "ranAres"
    /\ ares.force
    /\ ~ares.out
    /\ findBadLine(ares.log) # 0
    /\ ares.index <= MaxRetries
    /\ ares' = [ares EXCEPT
                  !.pc = "_run_ares",
                  !.tmp = @ \cup {ares.index},
                  !.presented = cleanLineList(RetryList(ares),
                                              findBadLine(ares.log)),
                  !.removed = @ \cup {findBadLine(ares.log)},
                  !.index = @ + 1]
    /\ UNCHANGED <<ewVars, interp, moog>>

\* aresRunner, lines 207-208 and 218-227: the loop is left, the temporary
\* lists are removed, and make_linelist reads the output of ARES.
AresEnd ==
    /\ ares.pc = "ranAres"
    /\ ~ares.force \/ ares.out \/ findBadLine(ares.log) = 0
    /\ ares' = [ares EXCEPT
                  !.pc = "done",
                  !.tmp = {},
                  !.exception = IF ares.out THEN "" ELSE "IOError"]
    /\ UNCHANGED <<ewVars, interp, moog>>

NextAres ==
    \/ AresStart
    \/ AresRun
    \/ AresRetry
    \/ AresEnd

SpecAres == InitAres /\ [][NextAres]_vars

\* ----------------------------------------------------------------- claims
IterTypes == {"1Iter", "allIter"}
OnceTypes == {"1Once", "allOnce"}
AllTypes == {"allOnce", "allIter"}
\* The positions of a job after its first solver run, outside the runner.
AfterRunner == {"teffrange", "autofix", "refine", "output"}

\* C1: no failure of a single job leaves the loop over the job descriptors:
\* no exception propagates out of ewdriver, whatever the descriptor and
\* whatever the solver runs do.
C1_NoFailureLeavesTheLoop == pc # "crashed" /\ exception = ""

\* C2: a job one of whose solver runs failed for want of FeII lines writes no
\* row to results.csv, and the batch goes on to the next job.
C2_FailedJobWritesNoRow ==
    hist.failed => (~row.written /\ pc # "crashed")

\* C3: the file the descriptor names is never modified, and once a line was
\* removed the job's list goes under another name than the original's.
C3_OriginalListUntouched ==
    /\ hist.origName \in DOMAIN files => files[hist.origName] = hist.origLines
    /\ (pc \in AfterRunner /\ hist.removed # {}) => line0 # hist.origName

\* C4: under '1Once' a round removes exactly the worst line of the report and
\* no other line, and the solver is restarted exactly once.
C4_SingleOnceRemovesWorstOnly ==
    (options.outlier = "1Once" /\ hist.reruns >= 1)
        => (hist.dropped = {hist.worst} /\ hist.reruns = 1)

\* C5: under 'allOnce' and in every round of 'allIter' every line the rule
\* flags in the round is removed before the solver is restarted.
C5_AllFlaggedRemoved ==
    (options.outlier \in AllTypes /\ hist.reruns >= 1)
        => hist.flagged \subseteq hist.dropped

\* C6: _outlierRunner returns, under the Iter types, only when the detection
\* on the report of the latest solver run found nothing, with one solver run
\* per detection that found outliers; under the Once types after at most one
\* solver run.  While it runs, the solver runs lag the detections that found
\* outliers by at most one.
C6_ReturnsAfterCleanDetection ==
    [][ /\ (pc = "outlierLoop" /\ pc' \in AfterRunner /\ options.outlier \in IterTypes)
            => /\ outliers = EmptyDict
               /\ hist.detectRun = hist.runs
               /\ hist.reruns = hist.hits
        /\ (pc = "outlierLoop" /\ pc' \in AfterRunner /\ options.outlier \in OnceTypes)
            => hist.reruns <= 1
        /\ (pc' = "outlierLoop")
            => hist'.hits - hist'.reruns \in {0, 1} ]_vars

\* Under '1Iter'/'allIter' the runner is about to return after two rounds.
C6_Witness ==
    /\ pc = "outlierLoop"
    /\ options.outlier \in IterTypes
    /\ hist.reruns >= 2
    /\ outliers = EmptyDict

\* C7 restated on the report: the line w of the stage with lines rows lies at
\* least n standard deviations from the stage's mean.
C7_Deviates(s, rows, w, n) ==
    LET N == Cardinality(rows)
        S == SumOver(s, rows)
        sq == [x \in rows |-> (N * s[x] - S) * (N * s[x] - S)]
    IN  N * sq[w] >= n * n * SumOver(sq, rows)

C7_Qualifying(s, n) ==
    {w \in Stage(DOMAIN s, 1) : C7_Deviates(s, Stage(DOMAIN s, 1), w, n)}
    \cup
    {w \in Stage(DOMAIN s, 2) :
        /\ Cardinality(Stage(DOMAIN s, 2)) > 10
        /\ C7_Deviates(s, Stage(DOMAIN s, 2), w, n)}

\* C7: the report of hasOutlier is non-empty exactly when some line of a
\* screened stage lies at least n standard deviations from its stage's mean;
\* it holds only such lines, and no FeII line when FeII has 10 lines or fewer.
C7_ReportIffQualifyingLine ==
    pc = "detected" =>
        /\ (outliers # EmptyDict) <=> (C7_Qualifying(summary, options.sigma) # {})
        /\ DictValues(outliers) \subseteq C7_Qualifying(summary, options.sigma)
        /\ Cardinality(Stage(DOMAIN summary, 2)) <= 10
             => Stage(DictValues(outliers), 2) = {}

\* FeII has exactly 10 lines, one of them far off the mean, and the report is
\* empty.
C7_Witness ==
    /\ pc = "detected"
    /\ Cardinality(Stage(DOMAIN summary, 2)) = 10
    /\ \E w \in Stage(DOMAIN summary, 2) :
         C7_Deviates(summary, Stage(DOMAIN summary, 2), w, options.sigma)
    /\ outliers = EmptyDict

\* C8: within a job a removed line never comes back: the list the engine
\* reads, the report the detection reads and, outside the runner, the list
\* line[0] names hold no line that the job removed.
C8_RemovedLinesStayOut ==
    /\ hist.removed \cap ActiveLines = {}
    /\ hist.removed \cap DOMAIN summary = {}
    /\ pc \in AfterRunner \cup {"outlier"} => hist.removed \cap files[line0] = {}

\* Lines went by outlier removal and by the teff-range pruning, and the job
\* is about to write its row.
C8_Witness ==
    /\ pc = "output"
    /\ hist.removed \cap CoolNormalDiff # {}
    /\ hist.removed \ CoolNormalDiff # {}

\* C9: every solver run of a job after the first starts from the vector the
\* last returning run of the job returned.
C9_WarmStart ==
    hist.runs >= 2 => hist.startedFrom = hist.prevReturned

\* A third run that started away from the initial guess.
C9_Witness ==
    /\ hist.runs >= 3
    /\ hist.startedFrom # initial
    /\ pc \in AfterRunner

\* C10, as claimed: every solver run and the row see the tags as parsed.
C10_TagsAsParsed ==
    /\ hist.tagsSeen = hist.tagsParsed
    /\ row.written => row.tags = hist.tagsParsed

\* The tags a solver run and the row are to see: the parsed ones, with fix_vt
\* set once the auto-fix of vt fired.
C10_Expected ==
    IF hist.vtFixed THEN [hist.tagsParsed EXCEPT ![4] = TRUE] ELSE hist.tagsParsed

\* C10, amended: fix_teff, fix_logg and fix_feh keep their parsed values for
\* the whole job; fix_vt keeps its parsed value until the auto-fix of vt
\* fires, and is True for every solver run from then on and in the row.
C10_TagsChangeOnlyByAutoFix ==
    /\ hist.tagsSeen = C10_Expected
    /\ row.written => row.tags = C10_Expected
    /\ pc \in AfterRunner \cup {"minimize", "outlier", "outlierLoop"}
         => Tags(options) = C10_Expected

\* The auto-fix fired on a job parsed with vt free, and the row says fixed.
C10_Witness ==
    /\ hist.vtFixed
    /\ ~hist.tagsParsed[4]
    /\ row.written
    /\ row.tags[4]

\* C11: the auto-fix freezes vt and restarts the solver only with autofixvt
\* set, the job's converged flag False, vt below 0.05 or above 9.95 and
\* abs(RWs) above 0.050; the restart starts from the current parameters, and a
\* job makes at most one such restart.
C11_AutoFixOnlyAtBoundaryOnce ==
    [][ /\ (pc = "autofix" /\ (hist'.runs # hist.runs \/ Tags(options') # Tags(options)))
            => /\ options.autofixvt
               /\ ~converged
               /\ (parameters.vt < 5 \/ parameters.vt > 995)
               /\ hist'.largeRW
               /\ options' = [options EXCEPT !.fix_vt = TRUE]
               /\ hist'.runs = hist.runs + 1
               /\ hist'.startedFrom = parameters
               /\ hist.autofixes = 0
        /\ hist'.autofixes <= 1
        /\ (hist'.autofixes # hist.autofixes /\ hist'.autofixes # 0) => pc = "autofix" ]_vars

\* The auto-fix restarted the solver away from the initial guess, with vt at
\* the upper boundary, and the job went on.
C11_Witness ==
    /\ pc = "refine"
    /\ hist.autofixes = 1
    /\ hist.startedFrom.vt > 995
    /\ hist.startedFrom # initial
    /\ Tags(options)[4]

\* C12: the refine pass runs only with the job's converged flag True and
\* refine set; the vector the job goes on with, and reports in its row, is
\* the refine pass's vector if that pass converged and the vector from before
\* the pass otherwise.
C12_RefinedVectorKeptOnlyIfConverged ==
    [][ /\ (pc = "refine" /\ hist'.runs # hist.runs)
            => (converged /\ options.refine /\ hist'.startedFrom = parameters)
        /\ (pc = "refine" /\ pc' = "output")
            => parameters' = IF hist'.runs # hist.runs /\ hist'.runConverged
                             THEN hist'.returned ELSE parameters
        /\ (pc = "output" /\ row'.written) => row'.parameters = parameters ]_vars

\* A refine pass ended elsewhere than it started, did not converge, and the
\* row reports the vector from before the pass.
C12_Witness ==
    /\ row.written
    /\ options = Defaults
    /\ converged
    /\ row.refine
    /\ ~hist.runConverged
    /\ hist.returned # hist.startedFrom
    /\ row.parameters = hist.startedFrom

\* C13, as claimed: after a refine pass each threshold the refine run was
\* given, and each threshold of the row, is exactly a third of the parsed one.
C13_ThresholdsExactThird ==
    hist.refined =>
        /\ \A i \in 1 .. 3 : 3 * hist.critSeen[i] = hist.critParsed[i]
        /\ row.written =>
             <<row.EPcrit, row.RWcrit, row.ABdiffcrit>> = hist.critSeen

\* C13, amended: after a refine pass each threshold the refine run was given is
\* the multiple of 0.0001 nearest to a third of the parsed threshold (within
\* half of 0.0001 of it), and the row holds the thresholds of the refine run.
C13_ThresholdsRoundedThird ==
    hist.refined =>
        /\ \A i \in 1 .. 3 :
             /\ 2 * (3 * hist.critSeen[i] - hist.critParsed[i]) <= 3
             /\ 2 * (hist.critParsed[i] - 3 * hist.critSeen[i]) <= 3
        /\ row.written =>
             <<row.EPcrit, row.RWcrit, row.ABdiffcrit>> = hist.critSeen

\* A refine pass on thresholds 0.0001 and 0.0005: the row holds 0.0 and 0.0002.
C13_Witness ==
    /\ hist.refined
    /\ row.written
    /\ hist.critParsed[1] = 1 /\ row.EPcrit = 0
    /\ hist.critParsed[2] = 5 /\ row.RWcrit = 2

\* The place of a step in the order solver, outlier removal, teff-range
\* pruning, auto-fix of vt, refine pass, error estimation and row.
C14_Rank(p) ==
    CASE p = "minimize" -> 1
      [] p \in {"outlier", "outlierLoop"} -> 2
      [] p = "teffrange" -> 3
      [] p = "autofix" -> 4
      [] p = "refine" -> 5
      [] p = "output" -> 6
      [] OTHER -> 0

\* A step that stays within the job.
C14_WithinJob == C14_Rank(pc) # 0 /\ C14_Rank(pc') # 0

\* C14, as claimed: within a job the steps come in the order solver, outlier
\* removal, teff-range pruning, refine pass, error estimation (no step is
\* followed by an earlier one); the job that reaches the end appends one row,
\* and no job appends more than one.
C14_StepsInOrderOneRow ==
    [][ /\ C14_WithinJob => C14_Rank(pc') >= C14_Rank(pc)
        /\ hist'.rows <= 1
        /\ pc = "output" => (hist'.rows = 1 /\ row'.written) ]_vars

\* C14, amended: the steps come in that order, except that outlier removal is
\* run once more right after the solver run that follows a teff-range pruning,
\* when an outlier policy is set; after it the job goes on with the auto-fix
\* and the refine pass.  The job that reaches the end appends one row, and no
\* job appends more than one.
C14_StepsInOrderWithSecondRemoval ==
    [][ /\ C14_WithinJob =>
              \/ C14_Rank(pc') >= C14_Rank(pc)
              \/ /\ pc = "teffrange" /\ pc' = "outlier"
                 /\ options.outlier # "False"
                 /\ hist'.runs = hist.runs + 1
                 /\ hist.removed # hist'.removed
                 /\ ret' = "autofix"
        /\ (C14_WithinJob /\ pc = "outlierLoop" /\ pc' # "outlierLoop") => pc' = ret
        /\ hist'.rows <= 1
        /\ (hist'.rows # hist.rows /\ hist'.rows # 0) => pc = "output"
        /\ pc = "output" => (hist'.rows = 1 /\ row'.written) ]_vars

\* The job ran outlier removal before and after a teff-range pruning, then a
\* refine pass, and wrote its row.
C14_Witness ==
    /\ hist.rows = 1
    /\ row.written
    /\ row.outlier # "False"
    /\ hist.removed \cap CoolNormalDiff # {}
    /\ hist.removed \ CoolNormalDiff # {}
    /\ ret = "autofix"

\* The model of mnames at the bracket values i, j, k of teff, logg, feh.
C15_Corner(i, j, k) == interp.models[4 * i + 2 * j + k]

\* The value of a cell on the face of the bracket where the axis x is at its
\* low (side 0) or high (side 1) value: the four models of that face weighted
\* along the two other axes; in units of 1 / CoordDen^3.
C15_OnFace(x, side, cell) ==
    LET face == {idx \in {0, 1} \X {0, 1} \X {0, 1} : idx[x] = side}
        term == [idx \in face |->
                   LET w == [y \in 1 .. 3 |->
                               IF y = x THEN CoordDen
                               ELSE IF idx[y] = 1 THEN interp.coord[y]
                               ELSE CoordDen - interp.coord[y]]
                   IN  w[1] * w[2] * w[3] * C15_Corner(idx[1], idx[2], idx[3])[cell]]
    IN  SumOver(term, face)

\* C15: when each fractional coordinate of the target is exactly 0 or 1,
\* every cell of interpolator's result equals the same cell of the model at
\* that corner of the bracket; and for each axis on its own, a coordinate of
\* exactly 0 or 1 makes the result the one of the four models at that value of
\* the axis, the models at the other value leaving no trace.
C15_IdentityAtGridPoint ==
    interp.pc = "done" =>
        /\ interp.coord \in {0, CoordDen} \X {0, CoordDen} \X {0, CoordDen}
             => \A cell \in DOMAIN interp.newdeck :
                  interp.newdeck[cell] =
                    CoordDen * CoordDen * CoordDen
                      * C15_Corner(interp.coord[1] \div CoordDen,
                                   interp.coord[2] \div CoordDen,
                                   interp.coord[3] \div CoordDen)[cell]
        /\ \A x \in 1 .. 3 :
             interp.coord[x] \in {0, CoordDen}
               => \A cell \in DOMAIN interp.newdeck :
                    interp.newdeck[cell] =
                      C15_OnFace(x, interp.coord[x] \div CoordDen, cell)

\* The target is the grid point at the high teff, the low logg and the high
\* [Fe/H] of the bracket, and the result is that model's deck.
C15_Witness ==
    /\ interp.pc = "done"
    /\ interp.coord = <<CoordDen, 0, CoordDen>>
    /\ DOMAIN interp.newdeck = Cells(MaxLayers, MaxColumns)
    /\ \A cell \in DOMAIN interp.newdeck :
         interp.newdeck[cell] = CoordDen * CoordDen * CoordDen * interp.models[5][cell]

\* The cells every source model of the interpolation has.
C16_SharedCells ==
    {cell \in (1 .. MaxLayers) \X (1 .. MaxColumns) :
        \A k \in DOMAIN interp.models : cell \in DOMAIN interp.models[k]}

\* C16: the result of interpolator and of interpolatorN7 has as many layers
\* as the shortest source model and as many columns as the narrowest one, and
\* each of its cells is computed from the cell of the same layer and column
\* of the source models, which every source model has.
C16_ShapeIsMinimumOfSources ==
    interp.pc \in {"done", "doneN7"} =>
        /\ DOMAIN interp.reads = C16_SharedCells
        /\ interp.pc = "done" => DOMAIN interp.newdeck = C16_SharedCells
        /\ \A cell \in DOMAIN interp.reads :
             /\ interp.reads[cell] # {}
             /\ \A r \in interp.reads[cell] :
                  r[2] = cell /\ r[2] \in DOMAIN interp.models[r[1]]

\* interpolatorN7 ended on models of which one is a layer short and another a
\* column short.
C16_Witness ==
    /\ interp.pc = "doneN7"
    /\ DOMAIN interp.reads = Cells(MaxLayers - 1, MaxColumns - 1)
    /\ \E k \in N7Keys : DOMAIN interp.models[k] = Cells(MaxLayers - 1, MaxColumns)
    /\ \E k \in N7Keys : DOMAIN interp.models[k] = Cells(MaxLayers, MaxColumns - 1)

\* C17: interpolatorN7 collapses the axes in the order temperature, then
\* metallicity, then gravity.
C17_TeffThenFehThenLogg ==
    /\ interp.pc = "loggDone" => interp.order = <<"teff", "feh">>
    /\ interp.pc = "doneN7" => interp.order = <<"teff", "feh", "logg">>

\* The column of the job's row that _output's header names.
C18_Column(name) ==
    row.columns[CHOOSE i \in DOMAIN Header : Header[i] = name]

\* Whether the error err (in hundredths) is the quadrature sum, rounded to
\* two decimals, of slope * tefferr and the error other (in hundredths);
\* slope in units of 0.000001 per K.
C18_IsQuadrature(err, slope, tefferr, other) ==
    LET a == slope * tefferr     \* units of 0.000001
        b == other * 10000
        lo == 2 * err * 10000 - 10000
        hi == 2 * err * 10000 + 10000
        \* 4 * (a^2 + b^2) against lo^2 and hi^2, each divided by 400
        sum == (a \div 10) * (a \div 10) + (b \div 10) * (b \div 10)
    IN  /\ err >= 0
        /\ err > 0 => (lo \div 20) * (lo \div 20) <= sum
        /\ sum < (hi \div 20) * (hi \div 20)

\* Whether the estimate est (in hundredths) is logg - slope * teff + offset
\* rounded to two decimals.
C18_IsCorrection(est, slope, offset) ==
    LET exact == C18_Column("logg") * 10000 - slope * C18_Column("teff")
                 + offset * 10000
    IN  2 * Abs(est * 10000 - exact) <= 10000

\* C18, as claimed: each secondary gravity is logg + a * Teff + b, is in the
\* row next to the primary gravity, and its error is the quadrature sum of
\* a * (Teff error) and the error of the metallicity.
C18_ErrorFromMetallicity ==
    row.written =>
        /\ C18_IsCorrection(C18_Column("loggLC"), LCSlope, LCOffset)
        /\ C18_IsCorrection(C18_Column("loggastero"), AsteroSlope, AsteroOffset)
        /\ C18_Column("logg") = row.parameters.logg
        /\ C18_IsQuadrature(C18_Column("dloggLC"), LCSlope,
                            C18_Column("tefferr"), C18_Column("feherr"))
        /\ C18_IsQuadrature(C18_Column("dloggastero"), AsteroSlope,
                            C18_Column("tefferr"), C18_Column("feherr"))

\* C18, as the code has it: each secondary gravity is logg + a * Teff + b
\* with a = -0.000457, b = 2.59 and a = -0.000389, b = 2.10, rounded to two
\* decimals; the row holds both next to the primary gravity; the error of
\* each is the quadrature sum, rounded to two decimals, of a * (Teff error)
\* and the error of the primary gravity.
C18_ErrorFromGravity ==
    row.written =>
        /\ C18_IsCorrection(C18_Column("loggLC"), LCSlope, LCOffset)
        /\ C18_IsCorrection(C18_Column("loggastero"), AsteroSlope, AsteroOffset)
        /\ C18_Column("logg") = row.parameters.logg
        /\ C18_IsQuadrature(C18_Column("dloggLC"), LCSlope,
                            C18_Column("tefferr"), C18_Column("loggerr"))
        /\ C18_IsQuadrature(C18_Column("dloggastero"), AsteroSlope,
                            C18_Column("tefferr"), C18_Column("loggerr"))

\* A row whose two secondary gravities differ from the primary one and from
\* each other, and whose errors of gravity and of metallicity differ.
C18_Witness ==
    /\ row.written
    /\ C18_Column("loggerr") # C18_Column("feherr")
    /\ C18_Column("loggLC") # C18_Column("logg")
    /\ C18_Column("loggastero") # C18_Column("loggLC")
    /\ C18_Column("dloggLC") > C18_Column("loggerr")

\* C19: a call of the engine that hangs is given up after a timeout, the job
\* counts as failed, and the batch goes on to the next job.
C19_HungCallIsAbandoned ==
    (pc = "hung") ~> (pc = "read" /\ inflight = {})

\* The positions of ewdriver within a job, where the job reads and writes
\* summary.out, linelist/tmplinelist.moog and the engine's parameter file.
C20_JobRuns ==
    pc \in {"minimize", "outlier", "outlierLoop", "teffrange", "autofix",
            "refine", "output", "hung"}

C21_Abundances(report) ==
    Cardinality({i \in DOMAIN report : report[i].tag = "average abundance"})

\* C21: fun_moog yields a residual when the report holds exactly two average
\* abundances, and for any other number rejects the measurement as a failure
\* of missing ionization data.
C21_TwoAbundancesOrFailure ==
    moog.pc = "returned" =>
        IF C21_Abundances(moog.report) = 2
        THEN moog.result.kind = "residual"
        ELSE moog.result.kind = "MissingIonizationData"

C23_TaurossNonDecreasing ==
    interp.pc = "modelRead" =>
        \A i \in 1 .. Len(interp.tauross) - 1 :
            interp.tauross[i] <= interp.tauross[i + 1]

\* C24: the converged flag that gates the auto-fix and the refine pass, that
\* names the copy of the report and that the row holds is the outcome of the
\* job's most recent solver run, the re-runs of the outlier removal included.
C24_FlagIsLastRunOutcome ==
    /\ pc \in {"autofix", "refine", "output"} => converged = hist.runConverged
    /\ row.written => row.convergence = hist.runConverged

C26_Checks ==
    /\ pc = "teffrange"
    /\ options.teffrange
    /\ files[line0] \cap CoolNormalDiff # {}

\* C26: above 7000 K the check leaves the line lists, the parameters and the
\* number of solver runs as they are; below 5200 K it removes exactly the
\* lines of the cool-star difference list and restarts the solver at the
\* current parameters; from 5200 K to 7000 K it changes nothing.
C26_PrunesExactlyTheCoolLines ==
    [][ C26_Checks =>
          IF parameters.teff < TeffLow
          THEN /\ files'[line0] = files[line0] \ CoolNormalDiff
               /\ hist'.runs = hist.runs + 1
               /\ hist'.startedFrom = parameters
          ELSE /\ files' = files
               /\ parameters' = parameters
               /\ hist'.runs = hist.runs ]_vars

\* C27: with the logg and the [Fe/H] coordinate at a bracket value, every
\* cell of interpolator's result is (1 - t) times the cell of the model at the
\* low teff plus t times the cell of the model at the high teff, t being the
\* teff coordinate; in units of 1 / CoordDen^3.
C27_LinearInTeff ==
    ( /\ interp.pc = "done"
      /\ interp.coord[2] \in {0, CoordDen}
      /\ interp.coord[3] \in {0, CoordDen} )
    => \A cell \in DOMAIN interp.newdeck :
         LET j == interp.coord[2] \div CoordDen
             k == interp.coord[3] \div CoordDen
             t == interp.coord[1]
         IN  interp.newdeck[cell] =
               CoordDen * CoordDen
                 * ( (CoordDen - t) * interp.models[2 * j + k][cell]
                     + t * interp.models[4 + 2 * j + k][cell] )

\* A target strictly between the two teff values, at the low logg and the
\* high [Fe/H], whose models at the two teff values differ in every cell.
C27_Witness ==
    /\ interp.pc = "done"
    /\ interp.coord[1] \notin {0, CoordDen}
    /\ interp.coord[2] = 0
    /\ interp.coord[3] = CoordDen
    /\ \A cell \in DOMAIN interp.newdeck :
         /\ interp.models[1][cell] # interp.models[5][cell]
         /\ interp.newdeck[cell] # CoordDen * CoordDen * CoordDen * interp.models[1][cell]
         /\ interp.newdeck[cell] # CoordDen * CoordDen * CoordDen * interp.models[5][cell]

\* The error of the polynomial p at the sample i of the cell, times p.den.
C28_Error(p, i, cell) ==
    p.c[1] + p.c[2] * interp.dist[i]
    + p.c[3] * interp.dist[i] * interp.dist[i]
    - p.den * interp.models[i][cell]

\* C28: the value _interpol gives a cell is the value at distance 0 of the
\* polynomial fitted to the cell's values against the signed distances of the
\* models from the target: with 4 models the least-squares polynomial of
\* degree 2 (its errors are orthogonal to 1, x and x^2), with 2 models the
\* line through the two values.
C28_FitDegreeByNumberOfSamples ==
    interp.pc = "interpolDone" =>
        \A cell \in DOMAIN interp.newatm :
            LET p == interp.p[cell]
                N == Len(interp.dist)
                err == [i \in 1 .. N |-> C28_Error(p, i, cell)]
            IN  /\ p.den > 0
                /\ interp.newatm[cell] = [num |-> p.c[1], den |-> p.den]
                /\ N = 4 => \A k \in 0 .. 2 : PowerSum(interp.dist, err, k) = 0
                /\ N = 2 => p.c[3] = 0 /\ \A i \in 1 .. N : err[i] = 0

\* A call on 4 models, the target midway between the second and the third,
\* on which the fitted polynomial bends, and whose value at 0 is none of the
\* values of the cell.
C28_Witness ==
    /\ interp.pc = "interpolDone"
    /\ interp.dist = <<-3, -1, 1, 3>>
    /\ \E cell \in DOMAIN interp.newatm :
         /\ interp.p[cell].c[3] # 0
         /\ \A i \in 1 .. 4 :
              interp.newatm[cell].num # interp.newatm[cell].den * interp.models[i][cell]

\* C29: every cell of interpolator's result is computed from values the 8
\* models have at one and the same optical depth: the layers it reads have
\* the same place on the optical-depth scales of their models.
C29_CornersAtTheSameOpticalDepth ==
    interp.pc = "done" =>
        \A cell \in DOMAIN interp.newdeck :
            \A x \in interp.reads[cell], y \in interp.reads[cell] :
                interp.tauross[x[1]][x[2][1]] = interp.tauross[y[1]][y[2][1]]

\* C30: in force mode every run of ARES is given a line list that holds none
\* of the bad lines removed in the earlier retries of the run.
C30_RemovedLinesStayRemoved ==
    (ares.pc = "_run_ares" /\ ares.force) => ares.presented \cap ares.removed = {}

====
